---- MODULE Spec2Model ----
(***************************************************************************)
(* Git object-graph synchronisation of the app builder:                    *)
(*   services/githubService.ts  parseRepoUrl, fetchGithubRepo,             *)
(*                              pushToGitHubRepo                           *)
(*   pages/Editor.tsx           handlePushChanges                          *)
(* The remote (blobs, trees, commits, branch refs) is the state the        *)
(* service functions read and write through one REST call per await.       *)
(*                                                                         *)
(* Strings that the code splits are sequences of tokens: "/" and "." are   *)
(* tokens of their own, every other token is a run of characters that      *)
(* holds neither.  Remote blob content is a sequence of bytes, local file  *)
(* content a sequence of code points.                                      *)
(***************************************************************************)
EXTENDS Integers, Sequences, FiniteSets, TLC

\* ------------------------------------------------------------------ bounds
MaxExt == 2        \* ref moves made by writers other than this engine
MaxUrlLen == 6     \* tokens of a repository reference after the origin
MaxPathLen == 5    \* tokens of the path of a drawn tree entry

\* ----------------------------------------------------------- value domains
Pushers == {"p1", "p2"}
Branches == {"main", "dev"}

PathIndex == <<"index", ".", "html">>
PathStyle == <<"style", ".", "css">>
PathLogo == <<"logo", ".", "png">>
PathDist == <<"dist", "/", "app", ".", "js">>

NoSha == 0
EmptyTree == [x \in {} |-> <<>>]

\* ------------------------------------------------------------ text coding
\* UTF-8 of one code point (one- and two-byte forms).
EncodeCp(cp) ==
  IF cp < 128 THEN <<cp>> ELSE <<192 + (cp \div 64), 128 + (cp % 64)>>

RECURSIVE Utf8Encode(_)
Utf8Encode(s) ==
  IF s = <<>> THEN <<>> ELSE EncodeCp(Head(s)) \o Utf8Encode(Tail(s))

URIError == <<-1>>

\* decodeURIComponent(escape(bytes)): the UTF-8 reading of a byte string;
\* a malformed sequence throws.
RECURSIVE Utf8Decode(_)
Utf8Decode(b) ==
  IF b = <<>> THEN <<>>
  ELSE IF Head(b) < 128 THEN
    LET rest == Utf8Decode(Tail(b))
    IN IF rest = URIError THEN URIError ELSE <<Head(b)>> \o rest
  ELSE IF Head(b) >= 194 /\ Head(b) <= 223 /\ Len(b) >= 2
          /\ b[2] >= 128 /\ b[2] <= 191 THEN
    LET rest == Utf8Decode(Tail(Tail(b)))
    IN IF rest = URIError THEN URIError
       ELSE <<(Head(b) - 192) * 64 + (b[2] - 128)>> \o rest
  ELSE URIError

\* --------------------------------------------------------- the remote side
\* Object ids are content addresses: a blob's sha stands for its bytes, a
\* tree's sha for its path -> blob map.  A commit's sha is its index in
\* commits (two commits of equal tree and parent are still two objects:
\* message and timestamp differ).
BlobSha(bytes) == bytes

\* POST /git/blobs {content, encoding:'utf-8'}
RemoteCreateBlob(content) == Utf8Encode(content)

\* What a request to a blob endpoint does to the blob store: POST creates
\* the object, GET reads.
RemoteBlobStore(method, store, bytes) ==
  IF method = "POST" THEN store \cup {bytes} ELSE store

\* POST /git/trees {base_tree, tree: items}: the base tree with every item
\* laid over it.
ItemPaths(items) == {items[k].path : k \in 1..Len(items)}
LastItemSha(items, path) ==
  LET ks == {k \in 1..Len(items) : items[k].path = path}
      k == CHOOSE m \in ks : \A n \in ks : n <= m
  IN items[k].sha
RemoteCreateTreeNoBase(base, items) ==
  [path \in ItemPaths(items) |-> LastItemSha(items, path)]
RemoteCreateTree(base, items) ==
  [path \in (DOMAIN base) \cup ItemPaths(items) |->
     IF path \in ItemPaths(items) THEN LastItemSha(items, path)
     ELSE base[path]]

VARIABLES
  refs,            \* branch name -> tip commit sha
  defaultBranch,   \* repoData.default_branch
  commits,         \* sequence of commit objects [tree, parents]
  trees,           \* tree objects created so far
  blobs,           \* blob objects created so far
  push,            \* pusher -> locals of its pushToGitHubRepo call
  ext,             \* ref moves made so far by other writers
  imp,             \* locals of the fetchGithubRepo call
  url,             \* the repository reference typed into the import dialog
  repoInfo,        \* parseRepoUrl(url)
  extra,           \* tree entries of the repository next to those of the
                   \* commit objects above, as the tree listing reports them
  modal,           \* GitHubImportModal: isOpen, isLoading, error
  project,         \* the application's current project
  editor           \* the Editor component and what its push handler reads

vars == <<refs, defaultBranch, commits, trees, blobs, push, ext, imp, url,
          repoInfo, extra, modal, project, editor>>

remote == <<refs, defaultBranch, commits, trees, blobs>>

Parent(c) == IF commits[c].parents = <<>> THEN NoSha ELSE commits[c].parents[1]

RECURSIVE IsAncestorOrSelf(_, _)
IsAncestorOrSelf(a, c) ==
  IF c = NoSha THEN FALSE
  ELSE IF a = c THEN TRUE
  ELSE IsAncestorOrSelf(a, Parent(c))

\* PATCH /git/refs/heads/main {sha, force}: without force the remote moves
\* the ref only when the move is a fast-forward of its current value.
RemoteAcceptsRefUpdateForced(cur, new, force) == TRUE
RemoteAcceptsRefUpdate(cur, new, force) ==
  force \/ IsAncestorOrSelf(cur, new)

\* ------------------------------------------------- pushToGitHubRepo locals
PushBranch == "main"                  \* .../git/ref/heads/main

UpdateForceOn == TRUE
UpdateForce == FALSE                  \* body {sha, force: false}

FileIndexB == [name |-> PathIndex, content |-> <<66>>, language |-> <<"html">>]
FileStyleE == [name |-> PathStyle, content |-> <<233>>, language |-> <<"css">>]
FileInputs == {<<>>, <<FileIndexB>>, <<FileIndexB, FileStyleE>>}
\* the file sets of the two concurrent calls
FileInputsOf(p) == IF p = "p1" THEN FileInputs ELSE {<<FileStyleE>>}

\* the token the callers of this specification pass, and no token
CallerToken == "pat"
NoToken == ""

\* const headers = { 'Authorization': `token ${token}`, ... }
PushHeaders(token) == [Authorization |-> token]

\* log holds the requests sent so far, each with the headers it carries.
InitPush ==
  [pc |-> "idle", files |-> <<>>, latestCommitSha |-> NoSha,
   baseTreeSha |-> EmptyTree, i |-> 1, treeItems |-> <<>>, blobLog |-> <<>>,
   treeSha |-> EmptyTree, newCommitSha |-> NoSha, error |-> "none",
   imported |-> FALSE, headers |-> PushHeaders(NoToken), log |-> <<>>]

\* fetch(url, { method, headers, ... }) of one step; k is the file's index
\* for a blob request and 0 otherwise
PushRequest(st, kind, k) ==
  [kind |-> kind, k |-> k, auth |-> st.headers.Authorization]
Sent(st, kind, k) == Append(st.log, PushRequest(st, kind, k))

\* pushToGitHubRepo up to its first await
Started(st, token, fs) ==
  LET called == [st EXCEPT !.files = fs, !.headers = PushHeaders(token)]
  IN [called EXCEPT !.pc = "getRef", !.log = Sent(called, "getRef", 0)]

\* throw new Error(msg): the call rejects and sends nothing more
FailRetries(p, msg) ==
  push' = [push EXCEPT
             ![p] = [push[p] EXCEPT !.pc = "getRef", !.error = msg,
                                    !.log = Sent(push[p], "getRef", 0)]]
Fail(p, msg) == push' = [push EXCEPT ![p].pc = "failed", ![p].error = msg]

\* treeItems.push({path: file.name, mode, type, sha: blobData.sha}) unless
\* the blob response was not ok (continue).
TreeItemsKeepFailed(items, file, sha, ok) ==
  Append(items, [path |-> file.name, sha |-> sha])
TreeItemsAfterBlob(items, file, sha, ok) ==
  IF ok THEN Append(items, [path |-> file.name, sha |-> sha]) ELSE items

\* parents: [latestCommitSha]
CommitParentsCurrentTip(p) == <<refs[PushBranch]>>
CommitParents(p) == <<push[p].latestCommitSha>>

\* if (!updateRefRes.ok) throw
UpdateRefThrowsAlways(ok) == TRUE
UpdateRefThrows(ok) == ~ok

\* What the caller gets back about dropped files: the promise resolves to
\* undefined and a skipped file is recorded nowhere.
PushNotices(p) == {}

StartPush(p, fs) ==
  /\ push[p].pc = "idle"
  /\ push' = [push EXCEPT ![p] = Started(push[p], CallerToken, fs)]
  /\ UNCHANGED <<remote, ext, imp, url, repoInfo, extra, modal, project,
                 editor>>

\* the call with the file set a finished import returned, unmodified
StartPushImported(p) ==
  /\ push[p].pc = "idle"
  /\ imp.pc = "done"
  /\ push' = [push EXCEPT
                ![p] = [Started(push[p], CallerToken, imp.files)
                          EXCEPT !.imported = TRUE]]
  /\ UNCHANGED <<remote, ext, imp, url, repoInfo, extra, modal, project,
                 editor>>

\* commitData.tree.sha of GET git/commits/{latestCommitSha}
BaseTreeOfCurrentTip(p) == commits[refs[PushBranch]].tree
BaseTreeOf(p) == commits[push[p].latestCommitSha].tree

\* if (!newCommitRes.ok) throw
CreateCommitNeverThrows(ok) == FALSE
CreateCommitThrows(ok) == ~ok

\* 1. GET git/ref/heads/main
GetRef(p) ==
  /\ push[p].pc = "getRef"
  /\ \E ok \in BOOLEAN :
       IF ok
       THEN push' = [push EXCEPT ![p].pc = "getCommit",
                                 ![p].latestCommitSha = refs[PushBranch],
                                 ![p].log = Sent(push[p], "getCommit", 0)]
       ELSE Fail(p, "Could not fetch repository HEAD ref")
  /\ UNCHANGED <<remote, ext, imp, url, repoInfo, extra, modal, project,
                 editor>>

\* 2. GET git/commits/{latestCommitSha}; the status is not tested, an error
\* body has no tree and reading tree.sha of it throws.
GetCommit(p) ==
  /\ push[p].pc = "getCommit"
  /\ \E ok \in BOOLEAN :
       IF ok
       THEN push' = [push EXCEPT
              ![p].pc = IF push[p].files = <<>> THEN "createTree" ELSE "blobs",
              ![p].baseTreeSha = BaseTreeOf(p),
              ![p].log = IF push[p].files = <<>>
                         THEN Sent(push[p], "createTree", 0)
                         ELSE Sent(push[p], "blob", 1)]
       ELSE Fail(p, "TypeError")
  /\ UNCHANGED <<remote, ext, imp, url, repoInfo, extra, modal, project,
                 editor>>

\* 3. one turn of the for loop: POST git/blobs for files[i].  The request
\* may be rejected by fetch (throws), answered not ok (continue) or ok.
CreateBlob(p) ==
  LET st == push[p]
      file == st.files[st.i]
      bytes == RemoteCreateBlob(file.content)
      last == st.i = Len(st.files)
  IN /\ st.pc = "blobs"
     /\ \E resp \in {"ok", "notok", "reject"} :
          IF resp = "reject"
          THEN /\ Fail(p, "fetch failed")
               /\ UNCHANGED blobs
          ELSE /\ push' = [push EXCEPT
                    ![p].treeItems =
                       TreeItemsAfterBlob(st.treeItems, file, BlobSha(bytes),
                                          resp = "ok"),
                    ![p].blobLog = Append(st.blobLog, resp = "ok"),
                    ![p].i = st.i + 1,
                    ![p].pc = IF last THEN "createTree" ELSE "blobs",
                    ![p].log = IF last THEN Sent(st, "createTree", 0)
                               ELSE Sent(st, "blob", st.i + 1)]
               /\ blobs' = IF resp = "ok"
                           THEN RemoteBlobStore("POST", blobs, bytes)
                           ELSE blobs
     /\ UNCHANGED <<refs, defaultBranch, commits, trees, ext, imp, url,
                    repoInfo, extra, modal, project,
                 editor>>

\* 4. POST git/trees {base_tree: baseTreeSha, tree: treeItems}
CreateTree(p) ==
  LET st == push[p]
      t == RemoteCreateTree(st.baseTreeSha, st.treeItems)
  IN /\ st.pc = "createTree"
     /\ \E ok \in BOOLEAN :
          IF ok
          THEN /\ push' = [push EXCEPT ![p].pc = "createCommit",
                                       ![p].treeSha = t,
                                       ![p].log = Sent(st, "createCommit", 0)]
               /\ trees' = trees \cup {t}
          ELSE /\ Fail(p, "Failed to create git tree")
               /\ UNCHANGED trees
     /\ UNCHANGED <<refs, defaultBranch, commits, blobs, ext, imp, url,
                    repoInfo, extra, modal, project,
                 editor>>

\* 5. POST git/commits {message, tree: treeData.sha, parents}
CreateCommit(p) ==
  LET st == push[p]
  IN /\ st.pc = "createCommit"
     /\ \E ok \in BOOLEAN :
          IF CreateCommitThrows(ok)
          THEN /\ Fail(p, "Failed to create commit")
               /\ UNCHANGED commits
          ELSE /\ commits' = IF ok
                             THEN Append(commits,
                                         [tree |-> st.treeSha,
                                          parents |-> CommitParents(p)])
                             ELSE commits
               /\ push' = [push EXCEPT
                            ![p].pc = "updateRef",
                            ![p].newCommitSha = IF ok THEN Len(commits) + 1
                                                ELSE NoSha,
                            ![p].log = Sent(st, "updateRef", 0)]
     /\ UNCHANGED <<refs, defaultBranch, trees, blobs, ext, imp, url,
                    repoInfo, extra, modal, project,
                 editor>>

\* 6. PATCH git/refs/heads/main {sha: newCommitData.sha, force: false}
UpdateRef(p) ==
  LET st == push[p]
  IN /\ st.pc = "updateRef"
     /\ \E reached \in BOOLEAN :
          LET ok == reached /\ RemoteAcceptsRefUpdate(refs[PushBranch],
                                                      st.newCommitSha,
                                                      UpdateForce)
          IN /\ refs' = IF ok THEN [refs EXCEPT ![PushBranch] = st.newCommitSha]
                        ELSE refs
             /\ IF UpdateRefThrows(ok)
                THEN Fail(p, "Failed to update repository reference")
                ELSE push' = [push EXCEPT ![p].pc = "done"]
     /\ UNCHANGED <<defaultBranch, commits, trees, blobs, ext, imp, url,
                    repoInfo, extra, modal, project,
                 editor>>

\* --------------------------------------------- writers other than the engine
ExtItem == <<[path |-> PathIndex, sha |-> <<88>>]>>

\* another client commits on top of the tip (a descendant of it)
ExtAdvance ==
  /\ ext < MaxExt
  /\ LET tip == refs[PushBranch]
         t == RemoteCreateTree(commits[tip].tree, ExtItem)
     IN /\ commits' = Append(commits, [tree |-> t, parents |-> <<tip>>])
        /\ trees' = trees \cup {t}
        /\ blobs' = blobs \cup {<<88>>}
        /\ refs' = [refs EXCEPT ![PushBranch] = Len(commits) + 1]
  /\ ext' = ext + 1
  /\ UNCHANGED <<defaultBranch, push, imp, url, repoInfo, extra, modal, project,
                 editor>>

\* another client force-pushes an amended tip (a sibling of it)
ExtAmend ==
  /\ ext < MaxExt
  /\ LET tip == refs[PushBranch]
         t == RemoteCreateTree(commits[tip].tree, ExtItem)
     IN /\ Parent(tip) # NoSha
        /\ commits' = Append(commits, [tree |-> t,
                                       parents |-> commits[tip].parents])
        /\ trees' = trees \cup {t}
        /\ blobs' = blobs \cup {<<88>>}
        /\ refs' = [refs EXCEPT ![PushBranch] = Len(commits) + 1]
  /\ ext' = ext + 1
  /\ UNCHANGED <<defaultBranch, push, imp, url, repoInfo, extra, modal, project,
                 editor>>

\* another client force-resets the branch to the tip's parent (an ancestor)
ExtReset ==
  /\ ext < MaxExt
  /\ Parent(refs[PushBranch]) # NoSha
  /\ refs' = [refs EXCEPT ![PushBranch] = Parent(refs[PushBranch])]
  /\ ext' = ext + 1
  /\ UNCHANGED <<defaultBranch, commits, trees, blobs, push, imp, url,
                 repoInfo, extra, modal, project,
                 editor>>

\* ------------------------------------------------------------ string helpers
RECURSIVE Split(_, _)
\* s.split(sep) for a one-token separator
Split(s, sep) ==
  IF \A k \in 1..Len(s) : s[k] # sep THEN <<s>>
  ELSE LET k == CHOOSE m \in 1..Len(s) :
                  s[m] = sep /\ \A n \in 1..(m - 1) : s[n] # sep
       IN <<SubSeq(s, 1, k - 1)>> \o Split(SubSeq(s, k + 1, Len(s)), sep)

\* array.pop() of a non-empty array
Pop(a) == a[Len(a)]

\* array.filter(Boolean) on an array of strings
FilterBoolean(a) == SelectSeq(a, LAMBDA x : x # <<>>)

\* ------------------------------------------------------------ fetchGithubRepo
EXTENSION_WHITELIST ==
  {<<".", e>> : e \in {"ts", "tsx", "js", "jsx", "vue", "html", "css", "json",
                       "md", "sql", "toml"}}

IGNORED_PATHS ==
  {<<"package-lock", ".", "json">>, <<"yarn", ".", "lock">>,
   <<"pnpm-lock", ".", "yaml">>, <<"dist">>, <<"build">>, <<"node_modules">>,
   <<".", "git">>}

SizeCeiling == 100000
NoSize == -1                          \* size?: number left out
BATCH_SIZE == 5

\* IGNORED_PATHS.has(item.path) ||
\* item.path.split('/').some(p => IGNORED_PATHS.has(p))
IsIgnoredWholePathOnly(path) == path \in IGNORED_PATHS
IsIgnored(path) ==
  \/ path \in IGNORED_PATHS
  \/ \E k \in 1..Len(Split(path, "/")) :
       Split(path, "/")[k] \in IGNORED_PATHS

\* const ext = '.' + item.path.split('.').pop()
ExtOf(path) == <<".">> \o Pop(Split(path, "."))

\* item.size && item.size > 100000
SizeExceedsFrom(size) == size # NoSize /\ size # 0 /\ size >= SizeCeiling
SizeExceeds(size) == size # NoSize /\ size # 0 /\ size > SizeCeiling

\* the filter callback of treeData.tree.filter(...)
IsEligible(item) ==
  IF item.type # "blob" THEN FALSE
  ELSE IF IsIgnored(item.path) THEN FALSE
  ELSE IF ExtOf(item.path) \notin EXTENSION_WHITELIST THEN FALSE
  ELSE IF SizeExceeds(item.size) THEN FALSE
  ELSE TRUE

\* GET git/trees/{branch}?recursive=1: one entry per directory and per blob,
\* in path order.
ListingOrder == <<<<"dist">>, PathDist, PathIndex, PathLogo, PathStyle>>
IsDirOf(d, path) ==
  Len(path) > Len(d) /\ SubSeq(path, 1, Len(d)) = d /\ path[Len(d) + 1] = "/"
ListEntry(tree, path) ==
  IF path \in DOMAIN tree
  THEN [path |-> path, type |-> "blob", sha |-> tree[path],
        size |-> Len(tree[path])]
  ELSE [path |-> path, type |-> "tree", sha |-> <<>>, size |-> NoSize]
RECURSIVE ListFrom(_, _)
ListFrom(tree, k) ==
  IF k > Len(ListingOrder) THEN <<>>
  ELSE LET path == ListingOrder[k]
           here == path \in DOMAIN tree
                   \/ \E q \in DOMAIN tree : IsDirOf(path, q)
       IN (IF here THEN <<ListEntry(tree, path)>> ELSE <<>>)
          \o ListFrom(tree, k + 1)
RemoteListTree(branch) == ListFrom(commits[refs[branch]].tree, 1)

\* treeData.tree of an untruncated response: the entries of the branch's
\* tree object, then the repository's further entries
TreeListing(branch) == RemoteListTree(branch) \o extra

\* the requests fetchGithubRepo sends, in the order it sends them
RepoRequest == [kind |-> "repo", path |-> <<>>]
TreeRequest == [kind |-> "tree", path |-> <<>>]
BlobRequest(blob) == [kind |-> "blob", path |-> blob.path]

\* if (!repoRes.ok) throw ...
RepoResThrows(ok) == ~ok
\* if (!treeRes.ok) throw ...
TreeResNeverThrows(ok) == FALSE
TreeResThrows(ok) == ~ok
RepoNotFoundError == "Repository not found or access denied"
TreeError == "Failed to fetch repository tree"

\* fetch(blob.url, { headers }): no method given
ImportBlobMethodPost == "POST"
ImportBlobMethod == "GET"

\* repoRes and treeRes hold the status of the two responses, truncated
\* the field of that name in treeData, log the requests sent so far.
InitImp ==
  [pc |-> "idle", defaultBranch |-> "none", blobList |-> <<>>, i |-> 1,
   outstanding |-> {}, batchResults |-> <<>>, files |-> <<>>,
   error |-> "none", repoRes |-> "none", treeRes |-> "none",
   truncated |-> FALSE, log |-> <<>>]

NoFile == [name |-> <<>>, content |-> <<>>, language |-> <<>>]

Min(a, b) == IF a < b THEN a ELSE b

\* batch = blobs.slice(i, i + BATCH_SIZE), as 1-based indices
BatchOfRest(list, i) ==
  {k \in 1..Len(list) : k >= i}
BatchOf(list, i) ==
  {k \in 1..Len(list) : k >= i /\ k < i + BATCH_SIZE}

\* batch.map(async blob => fetch(blob.url, ...)): one request per blob of
\* the batch, in batch order
RECURSIVE BatchRequests(_, _, _)
BatchRequests(list, batch, k) ==
  IF k > Len(list) THEN <<>>
  ELSE (IF k \in batch THEN <<BlobRequest(list[k])>> ELSE <<>>)
       \o BatchRequests(list, batch, k + 1)

\* the value the async callback of batch.map returns for one blob
ImportedFile(blob, content) ==
  [name |-> blob.path, content |-> content,
   language |-> IF Pop(Split(blob.path, ".")) = <<>> THEN <<"txt">>
                ELSE Pop(Split(blob.path, "."))]

\* fetchGithubRepo up to its first await
StartImport ==
  /\ imp.pc = "idle"
  /\ imp' = [imp EXCEPT !.pc = "repo", !.log = <<RepoRequest>>]
  /\ UNCHANGED <<remote, push, ext, url, repoInfo, extra, modal, project,
                 editor>>

\* imp after the response to GET /repos/{owner}/{repo}
AfterRepo(st, ok) ==
  IF RepoResThrows(ok)
  THEN [st EXCEPT !.pc = "failed", !.error = RepoNotFoundError,
                  !.repoRes = "notok"]
  ELSE [st EXCEPT !.pc = "tree", !.defaultBranch = defaultBranch,
                  !.repoRes = IF ok THEN "ok" ELSE "notok",
                  !.log = Append(st.log, TreeRequest)]

ImportGetRepo ==
  /\ imp.pc = "repo"
  /\ \E ok \in BOOLEAN : imp' = AfterRepo(imp, ok)
  /\ UNCHANGED <<remote, push, ext, url, repoInfo, extra, modal, project,
                 editor>>

\* imp after the response to GET git/trees/{defaultBranch}?recursive=1 with
\* entries listing: the filter, and the first batch of blob requests.  The
\* body of a response that is not ok has no tree.
AfterTree(st, ok, listing, truncated) ==
  IF TreeResThrows(ok)
  THEN [st EXCEPT !.pc = "failed", !.error = TreeError, !.treeRes = "notok"]
  ELSE LET list == SelectSeq(IF ok THEN listing ELSE <<>>, IsEligible)
       IN [st EXCEPT !.blobList = list,
                     !.batchResults = [k \in 1..Len(list) |-> NoFile],
                     !.pc = IF list = <<>> THEN "done" ELSE "wait",
                     !.outstanding = BatchOf(list, 1),
                     !.treeRes = IF ok THEN "ok" ELSE "notok",
                     !.truncated = truncated,
                     !.log = st.log \o
                             BatchRequests(list, BatchOf(list, 1), 1)]

ImportGetTree ==
  /\ imp.pc = "tree"
  /\ \E ok \in BOOLEAN :
       imp' = AfterTree(imp, ok, TreeListing(imp.defaultBranch), FALSE)
  /\ UNCHANGED <<remote, push, ext, url, repoInfo, extra, modal, project,
                 editor>>

\* the same request answered 200 with truncated: true and the first n
\* entries only, as the remote does for a tree over its listing limit
ImportGetTreeTruncated ==
  /\ imp.pc = "tree"
  /\ \E n \in 0..(Len(TreeListing(imp.defaultBranch)) - 1) :
       imp' = AfterTree(imp, TRUE,
                        SubSeq(TreeListing(imp.defaultBranch), 1, n), TRUE)
  /\ UNCHANGED <<remote, push, ext, url, repoInfo, extra, modal, project,
                 editor>>

\* what the rejected callback of batch.map carries
BlobError(ok) == IF ok THEN "URIError" ELSE "TypeError"

\* the response to one outstanding blob request.  A body without content
\* or bytes that are not UTF-8 reject the callback's promise, and with it
\* Promise.all and the import; the batch's other requests stay in flight.
\* The response that completes a batch appends the batch's files in batch
\* order and issues the next batch.
ImportBlobResponse(k) ==
  /\ k \in imp.outstanding
  /\ \E ok \in BOOLEAN :
       LET blob == imp.blobList[k]
           content == Utf8Decode(blob.sha)
           rest == imp.outstanding \ {k}
           results == [imp.batchResults EXCEPT
                         ![k] = ImportedFile(blob, content)]
           next == imp.i + BATCH_SIZE
       IN IF imp.pc = "failed"
          THEN imp' = [imp EXCEPT !.outstanding = rest]
          ELSE IF ~ok \/ content = URIError
          THEN imp' = [imp EXCEPT !.pc = "failed", !.outstanding = rest,
                          !.error = BlobError(ok)]
          ELSE IF rest # {}
          THEN imp' = [imp EXCEPT !.outstanding = rest,
                          !.batchResults = results]
          ELSE imp' = [imp EXCEPT
                  !.files = imp.files \o
                     SubSeq(results, imp.i, Min(next - 1, Len(imp.blobList))),
                  !.batchResults = results,
                  !.i = next,
                  !.outstanding = BatchOf(imp.blobList, next),
                  !.log = imp.log \o
                     BatchRequests(imp.blobList,
                                   BatchOf(imp.blobList, next), 1),
                  !.pc = IF next > Len(imp.blobList) THEN "done" ELSE "wait"]
  /\ blobs' = RemoteBlobStore(ImportBlobMethod, blobs, <<>>)
  /\ UNCHANGED <<refs, defaultBranch, commits, trees, push, ext, url,
                 repoInfo, extra, modal, project,
                 editor>>

\* --------------------------------------------------------------- parseRepoUrl
\* A reference is a token sequence; the origin of an absolute URL is one
\* token that only ever stands first.
Origin == "https://github.com"
UrlTokens == {"/", "owner", "repo"}

\* new URL(u): throws unless u is absolute.  Name tokens that follow the
\* origin directly belong to the host; the pathname starts at the first
\* "/" and is "/" when there is none.
NewURL(u) ==
  IF u = <<>> \/ Head(u) # Origin THEN [throws |-> TRUE, pathname |-> <<>>]
  ELSE LET r == Tail(u)
       IN IF \A k \in 1..Len(r) : r[k] # "/"
          THEN [throws |-> FALSE, pathname |-> <<"/">>]
          ELSE LET k == CHOOSE m \in 1..Len(r) :
                          r[m] = "/" /\ \A n \in 1..(m - 1) : r[n] # "/"
               IN [throws |-> FALSE, pathname |-> SubSeq(r, k, Len(r))]

Null == [null |-> TRUE, owner |-> <<>>, repo |-> <<>>]
RepoInfo(o, r) == [null |-> FALSE, owner |-> o, repo |-> r]

\* if (parts.length >= 2) in the try block
UrlPartsExactlyTwo(parts) == Len(parts) = 2
UrlPartsEnough(parts) == Len(parts) >= 2

parseRepoUrl(u) ==
  IF ~NewURL(u).throws
  THEN LET parts == FilterBoolean(Split(NewURL(u).pathname, "/"))
       IN IF UrlPartsEnough(parts) THEN RepoInfo(parts[1], parts[2]) ELSE Null
  ELSE LET parts == Split(u, "/")
       IN IF Len(parts) = 2 THEN RepoInfo(parts[1], parts[2]) ELSE Null

\* const repoInfo = parseRepoUrl(url) in handleImport
ParseUrl ==
  /\ ~repoInfo.set
  /\ repoInfo' = [set |-> TRUE, val |-> parseRepoUrl(url)]
  /\ UNCHANGED <<remote, push, ext, imp, url, extra, modal, project,
                 editor>>

\* ---------------------------------------------------------- GitHubImportModal
\* useState(false) of isLoading, useState(null) of error; the dialog is
\* rendered only while isOpen
InitModal == [isOpen |-> TRUE, isLoading |-> FALSE, error |-> "null"]
\* the application before onImport hands it a project
NoProject == [imported |-> FALSE, files |-> <<>>]

InvalidUrlError ==
  "Invalid GitHub URL. Use format: https://github.com/owner/repo"
NoFilesError == "No supported files found in this repository."

\* if (files.length === 0) throw ...
NoFilesThrows(files) == Len(files) = 0

\* onChange of the reference field
SetUrl(u) ==
  /\ modal.isOpen
  /\ url # u
  /\ url' = u
  /\ UNCHANGED <<remote, push, ext, imp, repoInfo, extra, modal, project,
                 editor>>

\* handleImport up to its first await: the button is disabled while
\* isLoading or with an empty field; fetchGithubRepo runs up to its
\* first fetch.  imp is the state of this call's fetchGithubRepo.
HandleImport ==
  /\ modal.isOpen /\ ~modal.isLoading /\ url # <<>>
  /\ LET info == parseRepoUrl(url)
     IN /\ repoInfo' = [set |-> TRUE, val |-> info]
        /\ IF info.null
           THEN /\ modal' = [modal EXCEPT !.error = InvalidUrlError]
                /\ imp' = InitImp
           ELSE /\ modal' = [modal EXCEPT !.error = "null",
                                          !.isLoading = TRUE]
                /\ imp' = [InitImp EXCEPT !.pc = "repo",
                                          !.log = <<RepoRequest>>]
  /\ UNCHANGED <<remote, push, ext, url, extra, project, editor>>

\* handleImport after fetchGithubRepo settles: onImport (the application's
\* handleProjectCreated and setIsGithubModalOpen(false)) and onClose, or
\* the catch block; then the finally block
HandleImportSettled ==
  /\ modal.isLoading
  /\ imp.pc \in {"done", "failed"}
  /\ IF imp.pc = "done" /\ ~NoFilesThrows(imp.files)
     THEN /\ project' = [imported |-> TRUE, files |-> imp.files]
          /\ modal' = [modal EXCEPT !.isOpen = FALSE, !.isLoading = FALSE]
     ELSE /\ project' = project
          /\ modal' = [modal EXCEPT
                         !.error = IF imp.pc = "failed" THEN imp.error
                                   ELSE NoFilesError,
                         !.isLoading = FALSE]
  /\ UNCHANGED <<remote, push, ext, imp, url, repoInfo, extra, editor>>

\* onClick={onClose} of the dialog's close button
CloseModal ==
  /\ modal.isOpen
  /\ modal' = [modal EXCEPT !.isOpen = FALSE]
  /\ UNCHANGED <<remote, push, ext, imp, url, repoInfo, extra, project, editor>>

\* onImportGithub of the application: setIsGithubModalOpen(true)
OpenModal ==
  /\ ~modal.isOpen
  /\ modal' = [modal EXCEPT !.isOpen = TRUE]
  /\ UNCHANGED <<remote, push, ext, imp, url, repoInfo, extra, project, editor>>

\* --------------------------------------------------------------------- Editor
\* useState(false) of isPushing, pushSuccess and isDeployModalOpen of a
\* mounted Editor; call is the push its handler awaits, timers the
\* setTimeout callbacks it has pending.  token is localStorage's
\* github_pat, githubOwner and githubRepo say whether the project has them.
InitEditor(token, owner, repo) ==
  [mounted |-> TRUE, isPushing |-> FALSE, pushSuccess |-> FALSE,
   isDeployModalOpen |-> FALSE, call |-> "none", timers |-> 0,
   token |-> token, githubOwner |-> owner, githubRepo |-> repo]

\* if (!token) in handlePushChanges
TokenMissingNever(token) == FALSE
TokenMissing(token) == token = NoToken

\* handlePushChanges up to its first await; the button is rendered for a
\* project with githubRepo and disabled while isPushing.  p is the call of
\* pushToGitHubRepo it makes.
HandlePushChanges(p) ==
  /\ editor.mounted /\ editor.githubRepo /\ ~editor.isPushing
  /\ push[p].pc = "idle"
  /\ IF ~editor.githubOwner \/ ~editor.githubRepo
     THEN UNCHANGED <<push, editor>>
     ELSE IF TokenMissing(editor.token)
     THEN /\ editor' = [editor EXCEPT !.isDeployModalOpen = TRUE]
          /\ UNCHANGED push
     ELSE /\ editor' = [editor EXCEPT !.isPushing = TRUE,
                                      !.pushSuccess = FALSE, !.call = p]
          /\ push' = [push EXCEPT
                        ![p] = Started(push[p], editor.token, project.files)]
  /\ UNCHANGED <<remote, ext, imp, url, repoInfo, extra, modal, project>>

\* handlePushChanges after pushToGitHubRepo settles, in the Editor that
\* made the call: setPushSuccess(true) and the timer, or the catch block;
\* then the finally block
HandlePushSettled ==
  /\ editor.mounted /\ editor.call # "none"
  /\ push[editor.call].pc \in {"done", "failed"}
  /\ editor' = IF push[editor.call].pc = "done"
               THEN [editor EXCEPT !.pushSuccess = TRUE,
                                   !.timers = editor.timers + 1,
                                   !.isPushing = FALSE, !.call = "none"]
               ELSE [editor EXCEPT !.isPushing = FALSE, !.call = "none"]
  /\ UNCHANGED <<remote, push, ext, imp, url, repoInfo, extra, modal,
                 project>>

\* setTimeout(() => setPushSuccess(false), 3000)
PushSuccessTimer ==
  /\ editor.mounted /\ editor.timers > 0
  /\ editor' = [editor EXCEPT !.pushSuccess = FALSE,
                              !.timers = editor.timers - 1]
  /\ UNCHANGED <<remote, push, ext, imp, url, repoInfo, extra, modal,
                 project>>

\* handleGoHome of the application: the view changes and the Editor
\* unmounts; its state is gone and the setters of its pending handlers
\* and timers do nothing
LeaveEditor ==
  /\ editor.mounted
  /\ editor' = [InitEditor(editor.token, editor.githubOwner,
                           editor.githubRepo) EXCEPT !.mounted = FALSE]
  /\ UNCHANGED <<remote, push, ext, imp, url, repoInfo, extra, modal,
                 project>>

\* handleSelectProject of the application: a new Editor mounts
OpenEditor ==
  /\ ~editor.mounted
  /\ editor' = [editor EXCEPT !.mounted = TRUE]
  /\ UNCHANGED <<remote, push, ext, imp, url, repoInfo, extra, modal,
                 project>>

\* ------------------------------------------------------------ specification
\* Two commits: the root, and the tip of main on top of it.  logo.png holds
\* bytes that are not UTF-8; in TreeTipBinary style.css does too.
TreeRoot == (PathIndex :> <<97>>)
TreeTip == (PathIndex :> <<65>>) @@ (PathStyle :> <<195, 169>>)
             @@ (PathLogo :> <<195>>) @@ (PathDist :> <<65>>)
TreeTipBinary == (PathIndex :> <<65>>) @@ (PathStyle :> <<195>>)

InitRemote(tip, branch) ==
  /\ commits = <<[tree |-> TreeRoot, parents |-> <<>>],
                 [tree |-> tip, parents |-> <<1>>]>>
  /\ refs = [b \in Branches |-> IF b = "main" THEN 2 ELSE 1]
  /\ defaultBranch = branch
  /\ trees = {TreeRoot, tip}
  /\ blobs = {TreeRoot[q] : q \in DOMAIN TreeRoot}
               \cup {tip[q] : q \in DOMAIN tip}

InitLocal ==
  /\ push = [p \in Pushers |-> InitPush]
  /\ ext = 0
  /\ imp = InitImp
  /\ url = <<>>
  /\ repoInfo = [set |-> FALSE, val |-> Null]
  /\ extra = <<>>
  /\ modal = InitModal
  /\ project = NoProject
  /\ editor = InitEditor(NoToken, FALSE, FALSE)

\* Two pushes of the engine and other writers on one repository.
Init ==
  /\ InitRemote(TreeTip, "main")
  /\ InitLocal

Next ==
  \/ \E p \in Pushers : \E fs \in FileInputsOf(p) : StartPush(p, fs)
  \/ \E p \in Pushers : GetRef(p)
  \/ \E p \in Pushers : GetCommit(p)
  \/ \E p \in Pushers : CreateBlob(p)
  \/ \E p \in Pushers : CreateTree(p)
  \/ \E p \in Pushers : CreateCommit(p)
  \/ \E p \in Pushers : UpdateRef(p)
  \/ ExtAdvance
  \/ ExtAmend
  \/ ExtReset

Spec == Init /\ [][Next]_vars

\* One import and one push, no other writer.
InitSolo ==
  /\ \E tip \in {TreeTip, TreeTipBinary} : \E branch \in Branches :
       InitRemote(tip, branch)
  /\ InitLocal

NextSolo ==
  \/ StartImport
  \/ ImportGetRepo
  \/ ImportGetTree
  \/ \E k \in imp.outstanding : ImportBlobResponse(k)
  \/ \E fs \in FileInputs : StartPush("p1", fs)
  \/ StartPushImported("p1")
  \/ GetRef("p1")
  \/ GetCommit("p1")
  \/ CreateBlob("p1")
  \/ CreateTree("p1")
  \/ CreateCommit("p1")
  \/ UpdateRef("p1")

SpecSolo == InitSolo /\ [][NextSolo]_vars

\* parseRepoUrl on every reference of up to MaxUrlLen tokens, bare or
\* behind an origin.
UrlInputs ==
  LET bare == UNION {[1..n -> UrlTokens] : n \in 0..MaxUrlLen}
  IN bare \cup {<<Origin>> \o r : r \in bare}

InitParse ==
  /\ InitRemote(TreeTip, "main")
  /\ push = [p \in Pushers |-> InitPush]
  /\ ext = 0
  /\ imp = InitImp
  /\ url \in UrlInputs
  /\ repoInfo = [set |-> FALSE, val |-> Null]
  /\ extra = <<>>
  /\ modal = InitModal
  /\ project = NoProject
  /\ editor = InitEditor(NoToken, FALSE, FALSE)

NextParse == ParseUrl

SpecParse == InitParse /\ [][NextParse]_vars

\* One import of a repository whose tree has index.html and further
\* entries: either one entry with any path of up to MaxPathLen tokens, any
\* type and any reported size around the ceiling, or the entries of
\* LongListing, which fill more than one batch.
PathTokens == {"/", ".", "ts", "dist"}

\* a path of a git tree: segments are non-empty and none is "." or ".."
IsGitPath(path) ==
  /\ path # <<>>
  /\ \A k \in 1..Len(Split(path, "/")) :
       Split(path, "/")[k] \notin {<<>>, <<".">>, <<".", ".">>}

PathInputs ==
  {path \in UNION {[1..n -> PathTokens] : n \in 1..MaxPathLen} :
     IsGitPath(path)}

SizeInputs == {NoSize, 0, SizeCeiling, SizeCeiling + 1}

\* a blob entry stands for its bytes by sha; one byte stands for the
\* content of any non-empty blob
BlobEntry(path, size) ==
  [path |-> path, type |-> "blob",
   sha |-> IF size = 0 THEN <<>> ELSE <<65>>, size |-> size]
DirEntry(path) == [path |-> path, type |-> "tree", sha |-> <<>>, size |-> NoSize]

EntryInputs ==
  {BlobEntry(path, size) : path \in PathInputs, size \in SizeInputs}
    \cup {DirEntry(path) : path \in PathInputs}

LongListing ==
  <<BlobEntry(<<"a", ".", "ts">>, 1), BlobEntry(<<"b", ".", "json">>, 1),
    DirEntry(<<"dist">>), BlobEntry(<<"dist", "/", "c", ".", "ts">>, 1),
    BlobEntry(<<"d", ".", "ts">>, 1), BlobEntry(<<"e", ".", "png">>, 1),
    BlobEntry(<<"f", ".", "css">>, 1), BlobEntry(<<"g", ".", "md">>, 1),
    BlobEntry(<<"h", ".", "js">>, 1)>>

InitImport ==
  /\ InitRemote(TreeRoot, "main")
  /\ push = [p \in Pushers |-> InitPush]
  /\ ext = 0
  /\ imp = InitImp
  /\ url = <<>>
  /\ repoInfo = [set |-> FALSE, val |-> Null]
  /\ extra \in {<<e>> : e \in EntryInputs} \cup {LongListing}
  /\ modal = InitModal
  /\ project = NoProject
  /\ editor = InitEditor(NoToken, FALSE, FALSE)

NextImport ==
  \/ StartImport
  \/ ImportGetRepo
  \/ ImportGetTree
  \/ ImportGetTreeTruncated
  \/ \E k \in imp.outstanding : ImportBlobResponse(k)

SpecImport == InitImport /\ [][NextImport]_vars

\* The import dialog on a repository with two, one or no eligible file.
TreeTipNoEligible == (PathLogo :> <<195>>) @@ (PathDist :> <<65>>)

DialogUrls ==
  {<<"owner">>, <<"owner", "/">>, <<"owner", "/", "repo">>,
   <<Origin, "/", "owner">>, <<Origin, "/", "owner", "/", "repo">>}

InitDialog ==
  /\ \E tip \in {TreeTip, TreeTipBinary, TreeTipNoEligible} :
       \E branch \in Branches : InitRemote(tip, branch)
  /\ InitLocal

NextDialog ==
  \/ \E u \in DialogUrls : SetUrl(u)
  \/ HandleImport
  \/ ImportGetRepo
  \/ ImportGetTree
  \/ \E k \in imp.outstanding : ImportBlobResponse(k)
  \/ HandleImportSettled
  \/ CloseModal
  \/ OpenModal

SpecDialog == InitDialog /\ [][NextDialog]_vars

\* The Editor on a project of one or two files or none, with or without a
\* stored token, repository owner and repository name.
InitEditorSpec ==
  /\ InitRemote(TreeTip, "main")
  /\ push = [p \in Pushers |-> InitPush]
  /\ ext = 0
  /\ imp = InitImp
  /\ url = <<>>
  /\ repoInfo = [set |-> FALSE, val |-> Null]
  /\ extra = <<>>
  /\ modal = InitModal
  /\ \E fs \in FileInputs : project = [imported |-> FALSE, files |-> fs]
  /\ \E token \in {NoToken, CallerToken} :
       \E owner \in BOOLEAN : \E repo \in BOOLEAN :
         editor = InitEditor(token, owner, repo)

NextEditor ==
  \/ \E p \in Pushers : HandlePushChanges(p)
  \/ \E p \in Pushers : GetRef(p)
  \/ \E p \in Pushers : GetCommit(p)
  \/ \E p \in Pushers : CreateBlob(p)
  \/ \E p \in Pushers : CreateTree(p)
  \/ \E p \in Pushers : CreateCommit(p)
  \/ \E p \in Pushers : UpdateRef(p)
  \/ HandlePushSettled
  \/ PushSuccessTimer
  \/ LeaveEditor
  \/ OpenEditor

SpecEditor == InitEditorSpec /\ [][NextEditor]_vars

TypeOK ==
  /\ ext \in 0..MaxExt
  /\ \A p \in Pushers : push[p].pc \in
       {"idle", "getRef", "getCommit", "blobs", "createTree", "createCommit",
        "updateRef", "done", "failed"}

\* ==================================================================== claims
Finished(p) == push[p].pc \in {"done", "failed"}
RefUpdateError == "Failed to update repository reference"

\* C1: a push that ends in an error leaves the branch ref as it would be
\* without the push: the step on which a push fails does not move the ref,
\* the ref is moved only by other writers or by the ref update of a push
\* that reports success, and a failed push's commit is reachable from no
\* branch (it stays an unreferenced object).
PushIsAtomic ==
  /\ [](\A p \in Pushers : push[p].pc = "failed" =>
          \A b \in Branches : ~IsAncestorOrSelf(push[p].newCommitSha, refs[b]))
  /\ [][/\ \A p \in Pushers :
             (push[p].pc # "failed" /\ push'[p].pc = "failed") => refs' = refs
        /\ refs' # refs =>
             \/ ext' # ext
             \/ \E p \in Pushers :
                  /\ push[p].pc = "updateRef"
                  /\ push'[p].pc = "done"
                  /\ refs' = [refs EXCEPT ![PushBranch] = push[p].newCommitSha]
       ]_vars

\* a push failed on its ref update after it created its commit
WitnessPushIsAtomic ==
  \E p \in Pushers :
    /\ push[p].pc = "failed"
    /\ push[p].error = RefUpdateError
    /\ push[p].newCommitSha # NoSha
    /\ Len(push[p].treeItems) > 0

\* C2: when the branch tip differs from the tip a push read in step 1 at
\* the time of the push's ref update, the update fails and the branch keeps
\* the externally set value.
ConflictDetected ==
  [][\A p \in Pushers :
       (/\ push[p].pc = "updateRef"
        /\ push'[p].pc # "updateRef"
        /\ refs[PushBranch] # push[p].latestCommitSha)
       => (/\ push'[p].pc = "failed"
           /\ push'[p].error = RefUpdateError
           /\ refs' = refs)]_vars

Created(p) == {k \in 1..Len(push[p].blobLog) : push[p].blobLog[k]}
Dropped(p) == {k \in 1..Len(push[p].blobLog) : ~push[p].blobLog[k]}
BlobLoopOver(p) ==
  /\ push[p].pc \in {"createTree", "createCommit", "updateRef", "done", "failed"}
  /\ Len(push[p].blobLog) = Len(push[p].files)
TreeBuilt(p) == push[p].pc \in {"createCommit", "updateRef", "done"}

\* C4: when blob creation is answered not ok for some but not all files the
\* push goes on: it can only fail on a later step, it reaches success, the
\* tree entries are exactly the files whose blob was created, once each, in
\* file order, with the file's own path and the hash of its own content,
\* and the new tree is the base tree with exactly those entries laid over.
PartialTolerance ==
  \A p \in Pushers :
    (BlobLoopOver(p) /\ Created(p) # {} /\ Dropped(p) # {}) =>
      LET st == push[p]
          names == {st.files[k].name : k \in Created(p)}
      IN /\ Len(st.treeItems) = Cardinality(Created(p))
         /\ \A k \in Created(p) :
              LET j == Cardinality({m \in Created(p) : m <= k})
              IN /\ st.treeItems[j].path = st.files[k].name
                 /\ st.treeItems[j].sha = Utf8Encode(st.files[k].content)
         /\ st.pc = "failed" =>
              st.error \in {"Failed to create git tree",
                            "Failed to create commit", RefUpdateError}
         /\ TreeBuilt(p) =>
              /\ DOMAIN st.treeSha = (DOMAIN st.baseTreeSha) \cup names
              /\ \A k \in Created(p) :
                   st.treeSha[st.files[k].name] = Utf8Encode(st.files[k].content)
              /\ \A path \in (DOMAIN st.baseTreeSha) \ names :
                   st.treeSha[path] = st.baseTreeSha[path]
         /\ st.pc = "done" => commits[st.newCommitSha].tree = st.treeSha

\* a push of two files succeeded although the second file's blob failed
WitnessPartialTolerance ==
  \E p \in Pushers :
    /\ push[p].pc = "done"
    /\ push[p].blobLog = <<TRUE, FALSE>>

\* C5: the caller of a push that resolved has one notice per dropped file,
\* naming the file.
DroppedFilesNotified ==
  \A p \in Pushers :
    push[p].pc = "done" =>
      PushNotices(p) = {push[p].files[k].name : k \in Dropped(p)}

\* C6: the commit a push creates has exactly one parent, the tip the push
\* read in step 1, wherever the branch is by then.
SingleParentIsReadTip ==
  \A p \in Pushers :
    push[p].newCommitSha # NoSha =>
      /\ Len(commits[push[p].newCommitSha].parents) = 1
      /\ commits[push[p].newCommitSha].parents[1] = push[p].latestCommitSha
      /\ push[p].latestCommitSha # NoSha

\* a push created its commit after the branch had moved off the tip it read
WitnessSingleParentIsReadTip ==
  \E p \in Pushers :
    /\ push[p].pc = "updateRef"
    /\ refs[PushBranch] # push[p].latestCommitSha
    /\ push[p].newCommitSha > refs[PushBranch]

\* C7: no step of an import, whether it ends well or not, changes a ref, a
\* commit, a tree or a blob of the remote.
ImportReadsOnly == [][imp' # imp => UNCHANGED remote]_vars

\* an import fetched two blobs and returned them
WitnessImportReadsOnly == imp.pc = "done" /\ Len(imp.files) >= 2

\* C8 as claimed: after a push that succeeds with no concurrent writer the
\* branch tip is the new commit and its tree maps every pushed path to the
\* pushed content.
PushedTreeHasEveryFile ==
  LET st == push["p1"]
  IN st.pc = "done" =>
       /\ refs[PushBranch] = st.newCommitSha
       /\ \A k \in 1..Len(st.files) :
            /\ st.files[k].name \in DOMAIN commits[st.newCommitSha].tree
            /\ commits[st.newCommitSha].tree[st.files[k].name]
                 = Utf8Encode(st.files[k].content)

\* C8, amended: after a push that succeeds with no concurrent writer the
\* branch tip is the new commit; its tree maps every pushed path whose blob
\* was created to exactly the pushed content and leaves a pushed path whose
\* blob creation failed as it is in the base tree; a tree listing of the
\* branch, and an import that lists it afterwards, observe that tree.
PushedTreeHasCreatedFiles ==
  /\ [](push["p1"].pc = "done" =>
          LET st == push["p1"]
              tree == commits[st.newCommitSha].tree
              base == commits[st.latestCommitSha].tree
          IN /\ refs[PushBranch] = st.newCommitSha
             /\ \A k \in Created("p1") :
                  /\ st.files[k].name \in DOMAIN tree
                  /\ Utf8Decode(tree[st.files[k].name]) = st.files[k].content
             /\ \A k \in Dropped("p1") :
                  IF st.files[k].name \in DOMAIN base
                  THEN tree[st.files[k].name] = base[st.files[k].name]
                  ELSE st.files[k].name \notin DOMAIN tree
             /\ RemoteListTree(PushBranch) = ListFrom(tree, 1))
  /\ [][(/\ push["p1"].pc = "done"
         /\ imp.pc = "tree"
         /\ imp'.pc \in {"wait", "done"}
         /\ imp.defaultBranch = PushBranch)
        => imp'.blobList =
             SelectSeq(ListFrom(commits[push["p1"].newCommitSha].tree, 1),
                       IsEligible)]_vars

\* a push that created one blob and dropped one succeeded, and an import
\* listed the branch after it
WitnessPushedTreeHasCreatedFiles ==
  /\ push["p1"].pc = "done"
  /\ push["p1"].blobLog = <<FALSE, TRUE>>
  /\ imp.pc = "done"
  /\ \E k \in 1..Len(imp.files) :
       imp.files[k].name = PathStyle /\ imp.files[k].content = <<233>>

\* C9: a push of the unmodified file set of a finished import creates a
\* commit whose tree is the tree of its parent commit.
RoundTripKeepsTree ==
  LET st == push["p1"]
  IN (st.imported /\ st.newCommitSha # NoSha) =>
       commits[st.newCommitSha].tree
         = commits[commits[st.newCommitSha].parents[1]].tree

\* C10: a URL whose path has at least two non-empty segments parses to the
\* first two of them, whatever follows; a bare owner/repo parses to its two
\* parts; the empty string and a single segment parse to null.
UrlSegments == {<<a>> : a \in UrlTokens \ {"/"}}
                 \cup {<<a, b>> : a, b \in UrlTokens \ {"/"}}
UrlSlashes == {<<"/">>, <<"/", "/">>}
UrlTails ==
  {<<>>} \cup {<<"/">> \o r : r \in UNION {[1..n -> UrlTokens] : n \in 0..2}}
ParseContract ==
  repoInfo.set =>
    /\ \A h \in {<<>>} \cup UrlSegments : \A s1, s2 \in UrlSlashes :
       \A a, b \in UrlSegments : \A rest \in UrlTails :
         url = <<Origin>> \o h \o s1 \o a \o s2 \o b \o rest
           => repoInfo.val = RepoInfo(a, b)
    /\ \A a, b \in UrlSegments :
         url = a \o <<"/">> \o b => repoInfo.val = RepoInfo(a, b)
    /\ (url = <<>> \/ url \in UrlSegments) => repoInfo.val = Null

\* a URL with a third segment after owner and repo was parsed
WitnessParseContract ==
  /\ repoInfo.set
  /\ url = <<Origin, "/", "owner", "/", "repo", "/", "owner">>
  /\ repoInfo.val = RepoInfo(<<"owner">>, <<"repo">>)


\* C11: whenever parseRepoUrl returns an identity, its owner and its name
\* are both non-empty, so that "owner/", "/repo" and "/" give null.
ParsedPartsNonEmpty ==
  (repoInfo.set /\ ~repoInfo.val.null) =>
    (repoInfo.val.owner # <<>> /\ repoInfo.val.repo # <<>>)


\* the entries of the repository's tree, and the paths a sequence of
\* entries, files or requests names
Range(f) == {f[k] : k \in 1..Len(f)}
Entries == Range(TreeListing(defaultBranch))
Requested == {r.path : r \in {q \in Range(imp.log) : q.kind = "blob"}}
Returned == {f.name : f \in Range(imp.files)}
ListedWhole == imp.treeRes = "ok" /\ ~imp.truncated

\* the path is an ignored name, or an ignored name stands in it between
\* slashes or the path's ends
HasIgnoredName(path) ==
  \E a \in 1..Len(path) : \E b \in a..Len(path) :
    /\ SubSeq(path, a, b) \in IGNORED_PATHS
    /\ a = 1 \/ path[a - 1] = "/"
    /\ b = Len(path) \/ path[b + 1] = "/"

\* C12: the filter excludes every tree entry whose whole path, or any
\* slash-separated segment of it, is an ignored name, whatever its
\* extension and size; the import neither selects, fetches nor returns
\* such an entry.
IgnoredNeverImported ==
  \A e \in Entries :
    HasIgnoredName(e.path) =>
      /\ ~IsEligible(e)
      /\ e \notin Range(imp.blobList)
      /\ e.path \notin Requested
      /\ e.path \notin Returned

WitnessIgnoredNeverImported ==
  /\ imp.pc = "done" /\ ListedWhole
  /\ \E e \in Range(extra) :
       /\ HasIgnoredName(e.path) /\ e \notin Range(imp.blobList)
       /\ e.type = "blob" /\ e.size = SizeCeiling
       /\ ExtOf(e.path) \in EXTENSION_WHITELIST

\* an entry that passes every test of the filter but the one on size
OtherwiseEligible(e) ==
  e.type = "blob" /\ ~IsIgnored(e.path)
    /\ ExtOf(e.path) \in EXTENSION_WHITELIST

\* C13: an otherwise eligible blob is excluded exactly when its reported
\* size is greater than 100000: one of exactly 100000, of size 0 or with
\* no reported size is selected, one above it is never selected, fetched or
\* returned.
SizeCeilingIsExclusive ==
  \A e \in Entries :
    OtherwiseEligible(e) =>
      LET over == e.size \notin {NoSize, 0} /\ e.size > 100000
      IN /\ IsEligible(e) <=> ~over
         /\ ListedWhole => (e \in Range(imp.blobList) <=> ~over)
         /\ over => e.path \notin Requested \cup Returned

WitnessSizeCeilingIsExclusive ==
  /\ imp.pc = "done" /\ ListedWhole
  /\ \E e \in Range(extra) :
       /\ OtherwiseEligible(e) /\ e.size = 100000
       /\ e.path \in Returned

\* the path contains a "." and what follows its last "." is on the
\* allow-list
HasAllowedExtension(path) ==
  \E k \in 1..Len(path) :
    /\ path[k] = "."
    /\ \A n \in (k + 1)..Len(path) : path[n] # "."
    /\ <<".">> \o SubSeq(path, k + 1, Len(path)) \in EXTENSION_WHITELIST

\* C14: the filter accepts an entry only if its path has an extension on
\* the allow-list; a path with no "." has none and is rejected, so that
\* every entry the import selects, fetches or returns has such a path.
AcceptedHaveExtension ==
  /\ \A e \in Range(imp.blobList) : HasAllowedExtension(e.path)
  /\ \A path \in Requested \cup Returned : HasAllowedExtension(path)


\* C15: a failure to fetch or to decode one blob does not abort the
\* import: the import fails only on the repository or the tree request,
\* and once every request is answered it has returned the record of every
\* selected file but those that failed.
BlobFailureIsPerFile ==
  /\ imp.pc = "failed" => imp.error \in {RepoNotFoundError, TreeError}
  /\ (imp.treeRes = "ok" /\ imp.outstanding = {}) =>
       \A k \in 1..Len(imp.blobList) :
         Utf8Decode(imp.blobList[k].sha) # URIError =>
           imp.blobList[k].path \in Returned

\* C16: at most BATCH_SIZE blob requests are outstanding at any moment,
\* all of them of the current batch, and the requests of the next batch are
\* sent only by the step that handles the last outstanding response of the
\* current one.
BatchesAreSequential ==
  /\ [](/\ Cardinality(imp.outstanding) <= 5
        /\ \A k \in imp.outstanding : imp.i <= k /\ k <= imp.i + 4)
  /\ [][(imp.pc = "wait" /\ Len(imp'.log) > Len(imp.log)) =>
          /\ Cardinality(imp.outstanding) = 1
          /\ imp'.outstanding \cap imp.outstanding = {}
          /\ \A k \in imp'.outstanding :
               \A n \in imp.outstanding : k > n]_vars

WitnessBatchesAreSequential ==
  /\ imp.pc = "wait" /\ imp.i = 6
  /\ Cardinality(imp.outstanding) = 2
  /\ Len(imp.files) = 5

\* C17: the import fails with the repository error when the existence
\* check is not ok, having sent no tree and no blob request, and with the
\* tree error when the tree listing is not ok, having sent no blob request.
FailsBeforeNextRequest ==
  /\ imp.repoRes = "notok" =>
       /\ imp.pc = "failed"
       /\ imp.error = "Repository not found or access denied"
       /\ imp.log = <<RepoRequest>>
  /\ imp.treeRes = "notok" =>
       /\ imp.pc = "failed"
       /\ imp.error = "Failed to fetch repository tree"
       /\ imp.log = <<RepoRequest, TreeRequest>>

WitnessFailsBeforeNextRequest ==
  /\ imp.repoRes = "ok" /\ imp.treeRes = "notok"
  /\ imp.pc = "failed"
  /\ \E e \in Entries : IsEligible(e)

\* C18: when the remote reports the recursive listing as truncated, the
\* import fails with the tree error and returns no file set built from the
\* partial listing.
TruncatedListingFails ==
  imp.truncated =>
    /\ imp.pc = "failed"
    /\ imp.error = TreeError
    /\ imp.files = <<>>


\* the reference supplies both parts: an absolute URL whose path has two
\* non-empty segments or more, or a bare string of two non-empty parts
\* around one slash
SuppliesBothParts(u) ==
  IF u # <<>> /\ Head(u) = Origin
  THEN Len(FilterBoolean(Split(NewURL(u).pathname, "/"))) >= 2
  ELSE /\ Len(Split(u, "/")) = 2
       /\ Split(u, "/")[1] # <<>> /\ Split(u, "/")[2] # <<>>

\* C19: the dialog hands a project to the application only when the
\* reference parsed and at least one file was imported: it starts loading
\* and sends a request only for a reference that supplies both parts, and
\* otherwise shows the invalid-reference error; an import that returns no
\* file ends with the no-files error; the application's project changes
\* only to the files of an import that returned some.
HandsOverOnlyImports ==
  /\ [][(~modal.isLoading /\ modal'.isLoading) => SuppliesBothParts(url)]_vars
  /\ [][(repoInfo' # repoInfo /\ ~SuppliesBothParts(url)) =>
          /\ modal'.error = InvalidUrlError
          /\ imp'.log = <<>>]_vars
  /\ [][(modal.isLoading /\ ~modal'.isLoading
           /\ imp.pc = "done" /\ imp.files = <<>>) =>
          modal'.error = NoFilesError]_vars
  /\ [][project' # project =>
          /\ imp.pc = "done" /\ imp.files # <<>>
          /\ project'.files = imp.files]_vars

\* C20: a push called with an empty file list creates no tree and no
\* commit and does not get to the ref update.
EmptyPushCreatesNothing ==
  \A p \in Pushers :
    (push[p].pc # "idle" /\ push[p].files = <<>>) =>
      /\ push[p].pc \notin {"createCommit", "updateRef", "done"}
      /\ push[p].newCommitSha = NoSha


\* the calls of one push, in the order of the six steps, as kind and file
\* index
CallsOf(files) ==
  <<<<"getRef", 0>>, <<"getCommit", 0>>>>
    \o [k \in 1..Len(files) |-> <<"blob", k>>]
    \o <<<<"createTree", 0>>, <<"createCommit", 0>>, <<"updateRef", 0>>>>
CallsSent(log) == [n \in 1..Len(log) |-> <<log[n].kind, log[n].k>>]
IsPrefix(a, b) == Len(a) <= Len(b) /\ a = SubSeq(b, 1, Len(a))
\* the step whose response a push waits for
Awaited(st) == IF st.pc = "blobs" THEN "blob" ELSE st.pc

\* C21: the calls of a push are sent in the order ref read, commit read,
\* blob creations, tree creation, commit creation, ref update; a call is
\* sent only by the step that handles the response to the call before it;
\* a failed push sends nothing more, and a ref update is sent only for a
\* commit that was created.
CallsInOrder ==
  /\ [](\A p \in Pushers :
          /\ IsPrefix(CallsSent(push[p].log), CallsOf(push[p].files))
          /\ push[p].pc \in {"updateRef", "done"} =>
               push[p].newCommitSha \in 1..Len(commits)
          /\ (\E n \in 1..Len(push[p].log) :
                 push[p].log[n].kind = "updateRef") =>
               push[p].newCommitSha \in 1..Len(commits))
  /\ [][\A p \in Pushers :
          push'[p].log # push[p].log =>
            /\ push[p].pc # "failed"
            /\ Len(push'[p].log) = Len(push[p].log) + 1
            /\ push[p].log # <<>> =>
                 push[p].log[Len(push[p].log)].kind = Awaited(push[p])]_vars

WitnessCallsInOrder ==
  \E p \in Pushers :
    /\ push[p].pc = "failed" /\ push[p].error = "Failed to create commit"
    /\ Len(push[p].files) = 2
    /\ Len(push[p].log) = 6

Injective(log) ==
  \A a \in 1..Len(log) : \A b \in 1..Len(log) : a # b => log[a] # log[b]

\* C22: no request is retried: an import and a push send each of their
\* requests at most once, with at most one blob request per file, a call
\* that has failed sends nothing more, and a push whose ref update was
\* rejected has failed after one ref read and one ref update.
NoRetry ==
  /\ [](/\ Injective(imp.log)
        /\ Injective(CallsSent(push["p1"].log))
        /\ push["p1"].error = RefUpdateError =>
             /\ push["p1"].pc = "failed"
             /\ CallsSent(push["p1"].log) = CallsOf(push["p1"].files))
  /\ [][/\ push["p1"].pc = "failed" => push'["p1"] = push["p1"]
        /\ imp.pc = "failed" => imp'.log = imp.log]_vars

WitnessNoRetry ==
  /\ push["p1"].pc = "failed" /\ push["p1"].error = RefUpdateError
  /\ Len(push["p1"].files) = 2
  /\ imp.pc = "done" /\ Len(imp.log) = 4

\* the paths whose blob a push created
CreatedPaths(p) == {push[p].files[k].name : k \in Created(p)}

\* C24: a push removes no path: every path of the base tree that is not
\* the path of a created blob, so also one whose blob creation failed, is
\* in the new commit's tree with the blob it had.
PushKeepsOtherPaths ==
  \A p \in Pushers :
    push[p].newCommitSha # NoSha =>
      LET new == commits[push[p].newCommitSha].tree
          base == commits[Parent(push[p].newCommitSha)].tree
      IN \A path \in DOMAIN base :
           path \notin CreatedPaths(p) =>
             path \in DOMAIN new /\ new[path] = base[path]

WitnessPushKeepsOtherPaths ==
  \E p \in Pushers :
    /\ push[p].pc = "done"
    /\ Dropped(p) # {} /\ Created(p) # {}
    /\ \E k \in Dropped(p) :
         push[p].files[k].name
           \in DOMAIN commits[Parent(push[p].newCommitSha)].tree
    /\ PathLogo \in DOMAIN commits[push[p].newCommitSha].tree

\* C26: the base tree a push builds its tree on is the tree of the commit
\* it names as parent: both come from the one ref read, wherever other
\* writers move the branch during the push.
BaseTreeIsParentsTree ==
  \A p \in Pushers :
    /\ push[p].pc \in {"blobs", "createTree", "createCommit", "updateRef",
                        "done"} =>
         push[p].baseTreeSha = commits[push[p].latestCommitSha].tree
    /\ push[p].newCommitSha # NoSha =>
         /\ commits[push[p].newCommitSha].parents
              = <<push[p].latestCommitSha>>
         /\ commits[push[p].newCommitSha].tree
              = RemoteCreateTree(commits[Parent(push[p].newCommitSha)].tree,
                                 push[p].treeItems)

WitnessBaseTreeIsParentsTree ==
  \E p \in Pushers :
    /\ push[p].newCommitSha # NoSha
    /\ ext > 0
    /\ refs[PushBranch] \notin {push[p].latestCommitSha,
                                  push[p].newCommitSha}
    /\ commits[refs[PushBranch]].tree # push[p].baseTreeSha

\* C27: a push whose blob creation failed for every file creates no commit
\* and does not get to the ref update.
AllBlobsFailedNoCommit ==
  \A p \in Pushers :
    (push[p].files # <<>> /\ BlobLoopOver(p) /\ Created(p) = {}) =>
      /\ push[p].newCommitSha = NoSha
      /\ push[p].pc \notin {"updateRef", "done"}

\* C28: a push reads and updates the branch the import read the file set
\* from, the repository's default branch, whatever its name.
PushUsesImportedBranch ==
  \A p \in Pushers :
    (push[p].imported /\ push[p].pc # "idle") =>
      /\ PushBranch = imp.defaultBranch
      /\ push[p].latestCommitSha \in {NoSha} \cup
            {c \in 1..Len(commits) :
               IsAncestorOrSelf(c, refs[imp.defaultBranch])}


\* the entries the file filter is to accept: blobs of no ignored name, with
\* an extension on the allow-list and no reported size over the ceiling
IsToBeImported(e) ==
  /\ e.type = "blob"
  /\ ~HasIgnoredName(e.path)
  /\ HasAllowedExtension(e.path)
  /\ ~(e.size \notin {NoSize, 0} /\ e.size > 100000)

\* what follows the last "." of a path that has one
AfterLastDot(path) ==
  LET k == CHOOSE m \in 1..Len(path) :
             path[m] = "." /\ \A n \in (m + 1)..Len(path) : path[n] # "."
  IN SubSeq(path, k + 1, Len(path))

RecordOf(e) ==
  [name |-> e.path, content |-> Utf8Decode(e.sha),
   language |-> AfterLastDot(e.path)]

\* C25: an import that returns has one record for every eligible entry of
\* the tree and none for any other entry, in listing order across the
\* batches, each with the entry's path, the decoded content of the entry's
\* own blob and the language that follows the path's last ".".
ImportReturnsEligible ==
  imp.pc = "done" =>
    LET eligible == SelectSeq(TreeListing(imp.defaultBranch), IsToBeImported)
    IN imp.files = [k \in 1..Len(eligible) |-> RecordOf(eligible[k])]


\* C30: an import that completes after its dialog was closed does not
\* replace the application's project: onImport is called only while the
\* dialog is open.
OnImportOnlyWhileOpen == [][project' # project => modal.isOpen]_vars


\* C23: every request of a push, so every blob, tree and commit creation
\* and every ref update, carries the stored credential, and with no stored
\* credential a push sends no request.
WritesCarryCredential ==
  \A p \in Pushers :
    /\ \A n \in 1..Len(push[p].log) :
         /\ push[p].log[n].auth # NoToken
         /\ push[p].log[n].auth = editor.token
    /\ editor.token = NoToken => push[p].log = <<>> /\ push[p].pc = "idle"

WitnessWritesCarryCredential ==
  \E p \in Pushers :
    /\ push[p].pc = "done"
    /\ \A kind \in {"blob", "createTree", "createCommit", "updateRef"} :
         \E n \in 1..Len(push[p].log) :
           push[p].log[n].kind = kind /\ push[p].log[n].auth = CallerToken

InFlight(p) == push[p].pc \notin {"idle", "done", "failed"}

\* C29: in the editor at most one push is in flight at a time: a push is
\* started only for a project with repository owner and name, isPushing is
\* true for as long as a push is outstanding, and pushSuccess is true only
\* after a push that reported success.
OnePushAtATime ==
  /\ Cardinality({p \in Pushers : InFlight(p)}) <= 1
  /\ (editor.mounted /\ \E p \in Pushers : InFlight(p)) => editor.isPushing
  /\ (\E p \in Pushers : push[p].pc # "idle") =>
       editor.githubOwner /\ editor.githubRepo
  /\ editor.pushSuccess => \E p \in Pushers : push[p].pc = "done"

====
